---- MODULE Spec2Model ----
(***************************************************************************)
(* Budget-forced decoding of jbxnes/deepseek-s1.                           *)
(*                                                                         *)
(*   verl/workers/rollout/stop_criteria.py   terminator patterns, matchers *)
(*   verl/workers/rollout/hf_rollout.py      budget_forcing_gen (batch-    *)
(*                                           synchronous controller)       *)
(*   verl/third_party/vllm/vllm_v_0_6_3/llm.py  LLM.generate/_run_engine   *)
(*                                           (per-request controller)      *)
(*                                                                         *)
(* A tensor of shape (B, L) is a sequence of B rows, each a sequence of L  *)
(* token ids.  A vocabulary is the sequence of (token string, id) entries  *)
(* in the iteration order of tokenizer.get_vocab(); a token string is a    *)
(* sequence of one-character strings.                                      *)
(***************************************************************************)
EXTENDS Integers, Sequences, FiniteSets, TLC

(***************************************************************************)
(* Bounds of the model.                                                    *)
(***************************************************************************)
\* Forcing iterations explored per call of budget_forcing_gen.
MaxRounds == 2
\* A generator round emits 1..ShortGen tokens or exactly max_new_tokens.
ShortGen == 3

(***************************************************************************)
(* Program constants.                                                      *)
(***************************************************************************)
\* hf_rollout.py:60-61, the margin reserved for the finishing round.
ReservedMargin == 128
\* stop_criteria.py:90 and llm.py:156, the hard-coded id of "think".
think_token_id == 26865

(***************************************************************************)
(* Tokenizer and vocabulary (external collaborator, given as data).        *)
(***************************************************************************)
Str_open == <<"<", "/">>
Str_close == <<">">>
Str_a == <<"a">>
Str_dlt == <<".", "<", "/">>
Str_think == <<"t", "h", "i", "n", "k">>
Str_nl == <<"\n">>
Str_Wait == <<"W", "a", "i", "t">>
Str_comma == <<",">>
Str_im_end == <<"<", "|", "i", "m", "_", "e", "n", "d", "|", ">">>
\* An end-of-sequence token whose text starts with ">".
Str_gt_eos == <<">", "<", "/", "s", ">">>
Str_endoftext == <<"<", "|", "e", "n", "d", "o", "f", "t", "e", "x", "t", "|", ">">>

Entry(s, i) == [token |-> s, id |-> i]

\* An Optional[int]: None, or the integer it holds.
None == << >>
Some(x) == << x >>
Value(opt) == opt[1]

BaseEntries ==
    << Entry(Str_a, 64), Entry(Str_think, think_token_id),
       Entry(Str_nl, 198), Entry(Str_Wait, 14190), Entry(Str_comma, 11),
       Entry(Str_endoftext, 151643), Entry(Str_im_end, 151645) >>

\* A vocabulary in which "</think>" has two 3-token realisations.
QwenVocab ==
    << Entry(Str_open, 522), Entry(Str_dlt, 3918), Entry(Str_close, 29) >>
        \o BaseEntries
\* Degenerate vocabularies: no token ends with "</", no token starts with ">".
NoLeftVocab == << Entry(Str_close, 29) >> \o BaseEntries
NoRightVocab == << Entry(Str_open, 522), Entry(Str_dlt, 3918) >> \o BaseEntries

Vocabs == {QwenVocab, NoLeftVocab, NoRightVocab}

\* A vocabulary whose end-of-sequence token is its only token starting
\* with ">": every terminator pattern ends with the end-of-sequence token.
EosClosesVocab ==
    << Entry(Str_open, 522), Entry(Str_gt_eos, 2) >>
        \o SelectSeq(BaseEntries, LAMBDA e : e.token # Str_im_end)

\* A tokenizer without padding token, as vLLM may be given.
NoPadVocab == SelectSeq(NoRightVocab, LAMBDA e : e.token # Str_endoftext)

\* str.endswith / str.startswith
EndsWith(s, suf) ==
    /\ Len(s) >= Len(suf)
    /\ SubSeq(s, Len(s) - Len(suf) + 1, Len(s)) = suf

StartsWith(s, pre) ==
    /\ Len(s) >= Len(pre)
    /\ SubSeq(s, 1, Len(pre)) = pre

\* tokenizer(text).input_ids[0] for a text that is one vocabulary entry.
TokenizeFirst(vocab, text) ==
    LET hits == SelectSeq(vocab, LAMBDA e : e.token = text)
    IN  hits[1].id

\* The text of the tokenizer's end-of-sequence token.
eos_token(vocab) ==
    IF \E i \in 1..Len(vocab) : vocab[i].token = Str_im_end
    THEN Str_im_end ELSE Str_gt_eos

\* The tokenizer object: its vocabulary, eos_token_id and pad_token_id
\* (None for a tokenizer without padding token).
Tokenizer(vocab) ==
    [vocab |-> vocab,
     eos_token_id |-> TokenizeFirst(vocab, eos_token(vocab)),
     pad_token_id |->
         IF \E i \in 1..Len(vocab) : vocab[i].token = Str_endoftext
         THEN Some(TokenizeFirst(vocab, Str_endoftext))
         ELSE None]

\* An ordinary token of the vocabulary, emitted where nothing special is.
Filler(vocab) == TokenizeFirst(vocab, Str_a)

IdsOf(entries) == [i \in 1..Len(entries) |-> entries[i].id]

\* [token_id for token, token_id in vocab.items() if token.endswith("</")]
left_matching_token_ids(vocab) ==
    IdsOf(SelectSeq(vocab, LAMBDA e : EndsWith(e.token, Str_open)))

\* [token_id for token, token_id in vocab.items() if token.startswith(">")]
right_matching_token_ids(vocab) ==
    IdsOf(SelectSeq(vocab, LAMBDA e : StartsWith(e.token, Str_close)))

Product_Diagonal(ls, rs) ==
    [i \in 1..(IF Len(ls) < Len(rs) THEN Len(ls) ELSE Len(rs)) |->
        << ls[i], rs[i] >>]

\* itertools.product(left, right): the right index runs fastest.
Product(ls, rs) ==
    [i \in 1..(Len(ls) * Len(rs)) |->
        << ls[((i - 1) \div Len(rs)) + 1], rs[((i - 1) % Len(rs)) + 1] >>]

\* torch.Tensor([...]) holds float32 values and .long() truncates them back:
\* integers below 2^24 survive, larger ones are rounded to the float32 grid.
RECURSIVE Float32Ulp(_)
Float32Ulp(x) == IF x < 16777216 THEN 1 ELSE 2 * Float32Ulp(x \div 2)

Float32Long(x) ==
    LET u == Float32Ulp(x)
        q == x \div u
        r == x % u
    IN  IF 2 * r < u THEN q * u
        ELSE IF 2 * r > u THEN (q + 1) * u
        ELSE (IF q % 2 = 0 THEN q ELSE q + 1) * u

TensorLong(xs) == [i \in 1..Len(xs) |-> Float32Long(xs[i])]

\* The rows of think_token_combo before stacking.
ThinkTokenRows(vocab) ==
    LET prod == Product(left_matching_token_ids(vocab),
                        right_matching_token_ids(vocab))
    IN  [i \in 1..Len(prod) |->
            TensorLong(<< prod[i][1], think_token_id, prod[i][2] >>)]

\* MatchingTokensStoppingCriteria.__init__: torch.stack of an empty list
\* raises, otherwise the (M, 3) tensor think_token_combo is stored.
MatchingTokensStoppingCriteria_init(vocab) ==
    LET rows == ThinkTokenRows(vocab)
    IN  IF Len(rows) = 0
        THEN [raised |-> TRUE, think_token_combo |-> << >>]
        ELSE [raised |-> FALSE, think_token_combo |-> rows]

\* LLM.__init__: a plain list of lists, empty when a candidate list is empty.
LLM_init_think_tokens(vocab) ==
    LET prod == Product(left_matching_token_ids(vocab),
                        right_matching_token_ids(vocab))
    IN  [i \in 1..Len(prod) |-> << prod[i][1], think_token_id, prod[i][2] >>]

\* LLM.__init__: [new_line_id, wait_token_id, comma_id]
LLM_init_replacement_tokens(vocab) ==
    << TokenizeFirst(vocab, Str_nl), TokenizeFirst(vocab, Str_Wait),
       TokenizeFirst(vocab, Str_comma) >>

\* HFRollout.__init__: the replace_tokens dictionary.
HFRollout_replacement_tokens(vocab) ==
    [nl |-> TokenizeFirst(vocab, Str_nl),
     Wait |-> TokenizeFirst(vocab, Str_Wait),
     comma |-> TokenizeFirst(vocab, Str_comma)]

(***************************************************************************)
(* Tensor helpers.                                                         *)
(***************************************************************************)
Width(t) == IF Len(t) = 0 THEN 0 ELSE Len(t[1])

\* x[-n:] of a Python list or a tensor row.
LastN(row, n) ==
    IF Len(row) <= n THEN row ELSE SubSeq(row, Len(row) - n + 1, Len(row))

Repeat(x, n) == [i \in 1..n |-> x]

\* torch.cat([a, b], dim=-1)
CatRows(a, b) == [i \in 1..Len(a) |-> a[i] \o b[i]]

(***************************************************************************)
(* stop_criteria.py: matchers and stop predicates.                         *)
(***************************************************************************)
get_matching_eos_mask_OfEos(input_ids, eos) ==
    [b \in 1..Len(input_ids) |-> input_ids[b][Width(input_ids)] = eos]

\* get_matching_eos_mask: the last column is compared with the builtin type
\* `int` (line 9), not with `eos`; no element is equal to it, so the result
\* selects no row whatever the input.
get_matching_eos_mask(input_ids, eos) ==
    [b \in 1..Len(input_ids) |-> FALSE]

\* get_matching_seq_mask: input_ids[:, -3:] has min(L, 3) columns; the
\* comparison with the (1, M, 3) patterns broadcasts a width of 3 or 1 and
\* raises for a width of 0 or 2.
get_matching_seq_mask(input_ids, pattern) ==
    LET w == IF Width(input_ids) < 3 THEN Width(input_ids) ELSE 3
        last_three == [b \in 1..Len(input_ids) |-> LastN(input_ids[b], 3)]
        cell(b, m, j) == IF w = 1 THEN last_three[b][1] = pattern[m][j]
                                  ELSE last_three[b][j] = pattern[m][j]
    IN  IF w \in {0, 2}
        THEN [raised |-> TRUE, mask |-> << >>]
        ELSE [raised |-> FALSE,
              mask |-> [b \in 1..Len(input_ids) |->
                          \E m \in 1..Len(pattern) :
                              \A j \in 1..3 : cell(b, m, j)]]

AnyEosStoppingCriteria_call_PerRow(input_ids, eos_token_id) ==
    [b \in 1..Len(input_ids) |->
        input_ids[b][Width(input_ids)] = eos_token_id]

\* AnyEosStoppingCriteria.__call__ (eos_token_id is a single id here).
AnyEosStoppingCriteria_call(input_ids, eos_token_id) ==
    LET any_eos == \E b \in 1..Len(input_ids) :
                       input_ids[b][Width(input_ids)] = eos_token_id
    IN  [b \in 1..Len(input_ids) |-> any_eos]

\* MatchingTokensStoppingCriteria.__call__
MatchingTokensStoppingCriteria_call(input_ids, combo, eos_token_id) ==
    LET seq_len == Width(input_ids)
        zeros == [b \in 1..Len(input_ids) |-> FALSE]
    IN  IF seq_len <= 3 THEN zeros
        ELSE LET rows_matching == get_matching_seq_mask(input_ids, combo).mask
                 matched_row == \E b \in 1..Len(input_ids) : rows_matching[b]
             IN  IF matched_row
                 THEN [b \in 1..Len(input_ids) |->
                          ~(input_ids[b][seq_len] = eos_token_id)]
                 ELSE zeros

(***************************************************************************)
(* State.                                                                  *)
(***************************************************************************)
VARIABLES
    pc,                         \* control position of the running call
    \* budget_forcing_gen: arguments and locals
    tokenizer, min_budget, max_budget,
    think_token_combo, replacement_seq,
    init_prompt_len, prompt_length,
    input_idx, attention_mask, new_input_attention_masks,
    output_seqs, current_used_budget,
    \* the calls of model.generate made so far, and the Forcing iterations
    gen_calls, rounds,
    \* LLM: fields set by __init__ and generate, the engine's requests, the
    \* outputs list of _run_engine and what it hands to _post_process_outputs
    do_budget_forcing, llm_min_budget, think_tokens, replacement_tokens,
    request_counter, engine, outputs, handed, result,
    \* the stop-criteria functions applied to a tensor on its own
    probe,
    \* HFRollout._generate_minibatch: its arguments and locals on the branch
    \* that calls module.generate itself
    minibatch

bfVars ==
    << tokenizer, min_budget, max_budget, think_token_combo, replacement_seq,
       init_prompt_len, prompt_length, input_idx, attention_mask,
       new_input_attention_masks, output_seqs, current_used_budget,
       gen_calls, rounds >>

llmVars ==
    << do_budget_forcing, llm_min_budget, think_tokens, replacement_tokens,
       request_counter, engine, outputs, handed, result >>

vars == << pc, bfVars, llmVars, probe, minibatch >>

(***************************************************************************)
(* Inputs of budget_forcing_gen.                                           *)
(***************************************************************************)
\* (min_budget, max_budget): margins of 128 (rejected), 129 and 258.
BudgetConfigs ==
    { [min_budget |-> 4, max_budget |-> 132],
      [min_budget |-> 4, max_budget |-> 133],
      [min_budget |-> 4, max_budget |-> 262] }

\* Left-padded prompt batches of two rows with their attention masks.
PromptBatches(tok) ==
    LET a == Filler(tok.vocab)
        p == Value(tok.pad_token_id)
        l == left_matching_token_ids(tok.vocab)
    IN  { [input_ids |-> << <<p, a>>, <<a, a>> >>,
           attention_mask |-> << <<0, 1>>, <<1, 1>> >>] }
        \cup
        (IF Len(l) = 0 THEN {}
         ELSE { [input_ids |-> << <<a, l[1], think_token_id>>, <<p, a, a>> >>,
                 attention_mask |-> << <<1, 1, 1>>, <<0, 1, 1>> >>] })

(***************************************************************************)
(* The generator, model.generate (external): what one round may return.    *)
(***************************************************************************)
\* The combined decision of stopping_criteria=[matching, eos] for the batch:
\* generation halts when no row is left unfinished.
StopDecision(input_ids, combo, eos) ==
    LET m == MatchingTokensStoppingCriteria_call(input_ids, combo, eos)
        e == AnyEosStoppingCriteria_call(input_ids, eos)
    IN  [b \in 1..Len(input_ids) |-> m[b] \/ e[b]]

AllStop(input_ids, combo, eos) ==
    \A b \in 1..Len(input_ids) : StopDecision(input_ids, combo, eos)[b]

\* Lengths of a round: a few tokens, or all of max_new_tokens.
GenLens(max_new_tokens) ==
    {k \in 1..max_new_tokens : k <= ShortGen \/ k = max_new_tokens}

\* What the two rows end with in a round with stop predicates: nothing
\* special, an end-of-sequence token, a terminator triple, or the closing
\* token alone after a context that ends with the "think" token.
StopTails(ctx, combo, tok) ==
    LET F == << >>
        E == << tok.eos_token_id >>
        P1 == combo[1]
        P2 == combo[Len(combo)]
        R == << combo[1][3] >>
    IN  { <<F, F>>, <<E, F>>, <<F, E>>, <<P1, F>>, <<F, P2>>, <<P1, E>> }
        \cup
        (IF ctx[1][Width(ctx)] = think_token_id THEN { <<R, F>> } ELSE {})

\* k new tokens per row: filler, then the row's tail.
Chunk(k, tails, tok) ==
    [b \in 1..Len(tails) |->
        Repeat(Filler(tok.vocab), k - Len(tails[b])) \o tails[b]]

Prefix(chunk, j) == [b \in 1..Len(chunk) |-> SubSeq(chunk[b], 1, j)]

\* The steps of a round after which some row holds something else than
\* filler; after any other step no stop predicate can hold, filler being
\* neither the end-of-sequence token nor a closing token.
LoudSteps(chunk, tok) ==
    {j \in 1..Width(chunk) :
        \E b \in 1..Len(chunk) : chunk[b][j] # Filler(tok.vocab)}

\* A round with stop predicates: the predicates are evaluated after every
\* new token; the round ends at the first step where they halt the batch,
\* or after max_new_tokens tokens.
StoppedRounds(call, combo, tok) ==
    { c \in { Chunk(k, t, tok) :
                k \in GenLens(call.max_new_tokens),
                t \in StopTails(call.input_ids, combo, tok) } :
        /\ \A b \in 1..Len(c) : Len(c[b]) = Width(c)
        /\ \A j \in LoudSteps(c, tok) \ {Width(c)} :
              ~AllStop(CatRows(call.input_ids, Prefix(c, j)), combo,
                       tok.eos_token_id)
        /\ \/ Width(c) = call.max_new_tokens
           \/ AllStop(CatRows(call.input_ids, c), combo, tok.eos_token_id) }

\* A round without stop predicates: a row that emits end-of-sequence is
\* finished and padded; the round ends when every row is finished or after
\* max_new_tokens tokens.
FreeRow(k, e, tok) ==
    IF e = 0 THEN Repeat(Filler(tok.vocab), k)
    ELSE Repeat(Filler(tok.vocab), e - 1) \o << tok.eos_token_id >>
            \o Repeat(Value(tok.pad_token_id), k - e)

\* Where each row emits end-of-sequence (0: never) in a round of k tokens:
\* every row is finished by step k, or the round ran to max_new_tokens.
FreeEnds(k, max_new_tokens) ==
    { <<k, k>> } \cup (IF k >= 2 THEN { <<k, k - 1>> } ELSE {})
    \cup (IF k = max_new_tokens THEN { <<0, 0>>, <<1, 0>> } ELSE {})

FreeRounds(call, tok) ==
    UNION { { << FreeRow(k, e[1], tok), FreeRow(k, e[2], tok) >> :
                e \in FreeEnds(k, call.max_new_tokens) } :
            k \in GenLens(call.max_new_tokens) }

GeneratorCall(ids, mask, n, stop) ==
    [input_ids |-> ids, attention_mask |-> mask, max_new_tokens |-> n,
     stopping_criteria |-> stop]

LastCall == gen_calls[Len(gen_calls)]

(***************************************************************************)
(* hf_rollout.py: budget_forcing_gen.                                      *)
(***************************************************************************)
MarginOk_AtLeast(min_b, max_b) == max_b - min_b >= ReservedMargin

\* line 60: assert max_budget - min_budget > 128
MarginOk(min_b, max_b) == max_b - min_b > ReservedMargin

max_budget_cut_NoMargin == max_budget

\* line 61
max_budget_cut == max_budget - ReservedMargin

\* lines 60-86: the configuration check, the stop criteria, the replacement
\* run, and the Priming call of model.generate.
budget_forcing_gen(vocab, cfg, prompts) ==
    LET tok == Tokenizer(vocab)
        crit == MatchingTokensStoppingCriteria_init(vocab)
        rt == HFRollout_replacement_tokens(vocab)
        ok == MarginOk(cfg.min_budget, cfg.max_budget) /\ ~crit.raised
    IN  /\ pc = "idle"
        /\ tokenizer' = tok
        /\ min_budget' = cfg.min_budget
        /\ max_budget' = cfg.max_budget
        /\ pc' = IF ~MarginOk(cfg.min_budget, cfg.max_budget)
                   THEN "config_error"
                 ELSE IF crit.raised THEN "build_error"
                 ELSE "priming_call"
        /\ think_token_combo' = IF ok THEN crit.think_token_combo ELSE << >>
        /\ replacement_seq' =
              IF ok THEN TensorLong(<< rt.nl, rt.Wait, rt.comma >>) ELSE << >>
        /\ input_idx' = IF ok THEN prompts.input_ids ELSE << >>
        /\ attention_mask' = IF ok THEN prompts.attention_mask ELSE << >>
        /\ init_prompt_len' = IF ok THEN Width(prompts.input_ids) ELSE 0
        /\ prompt_length' = IF ok THEN Width(prompts.input_ids) ELSE 0
        /\ gen_calls' =
              IF ok
              THEN << GeneratorCall(prompts.input_ids, prompts.attention_mask,
                                    max_budget_cut', TRUE) >>
              ELSE << >>
        /\ UNCHANGED << llmVars, probe, minibatch >>
        /\ UNCHANGED << new_input_attention_masks, output_seqs,
                        current_used_budget, rounds >>

\* line 92: the loop test.
LoopTest(used) == IF used < min_budget THEN "forcing" ELSE "finishing"

\* lines 76-91: the Priming round returns.
PrimingReturn(new) ==
    /\ pc = "priming_call"
    /\ output_seqs' = CatRows(LastCall.input_ids, new)
    /\ current_used_budget' = Width(output_seqs') - init_prompt_len
    /\ pc' = LoopTest(current_used_budget')
    /\ UNCHANGED << llmVars, probe, minibatch >>
    /\ UNCHANGED << tokenizer, min_budget, max_budget, think_token_combo,
                    replacement_seq, init_prompt_len, prompt_length, input_idx,
                    attention_mask, new_input_attention_masks, gen_calls,
                    rounds >>

\* output_seqs[rows, -n:] = values, for the rows the mask selects.
AssignTail(t, mask, values) ==
    [b \in 1..Len(t) |->
        IF mask[b]
        THEN SubSeq(t[b], 1, Len(t[b]) - Len(values)) \o values
        ELSE t[b]]

\* lines 93-98: the two splices of a Forcing iteration.
Splice(t, seq_mask, eos_mask, repl, nl) ==
    AssignTail(AssignTail(t, seq_mask, repl), eos_mask, << nl >>)

OnesAfter_Whole(t, from) == [b \in 1..Len(t) |-> Repeat(1, Width(t))]

\* torch.ones_like(output_seqs[:, prompt_length:])
OnesAfter(t, from) == [b \in 1..Len(t) |-> Repeat(1, Width(t) - from)]

\* lines 93-113: a Forcing iteration up to its call of model.generate.
ForcingIssue ==
    LET matching == get_matching_seq_mask(output_seqs, think_token_combo)
        matching_eos_mask ==
            get_matching_eos_mask(output_seqs, tokenizer.eos_token_id)
        spliced == Splice(output_seqs, matching.mask, matching_eos_mask,
                          replacement_seq,
                          HFRollout_replacement_tokens(tokenizer.vocab).nl)
        masks == CatRows(attention_mask, OnesAfter(output_seqs, prompt_length))
    IN  /\ pc = "forcing"
        /\ rounds < MaxRounds
        /\ rounds' = rounds + 1
        /\ IF matching.raised
           THEN /\ pc' = "match_error"
                /\ UNCHANGED << output_seqs, input_idx,
                                new_input_attention_masks, gen_calls >>
           ELSE /\ pc' = "forcing_call"
                /\ output_seqs' = spliced
                /\ input_idx' = spliced
                /\ new_input_attention_masks' = masks
                /\ gen_calls' = Append(gen_calls,
                      GeneratorCall(spliced, masks,
                                    max_budget_cut - current_used_budget, TRUE))
        /\ UNCHANGED << llmVars, probe, minibatch >>
        /\ UNCHANGED << tokenizer, min_budget, max_budget, think_token_combo,
                        replacement_seq, init_prompt_len, prompt_length,
                        attention_mask, current_used_budget >>

\* lines 103-117: the round of a Forcing iteration returns; the loop test.
ForcingReturn(new) ==
    /\ pc = "forcing_call"
    /\ output_seqs' = CatRows(LastCall.input_ids, new)
    /\ prompt_length' = Width(input_idx)
    /\ attention_mask' = new_input_attention_masks
    /\ pc' = LoopTest(current_used_budget)
    /\ UNCHANGED << llmVars, probe, minibatch >>
    /\ UNCHANGED << tokenizer, min_budget, max_budget, think_token_combo,
                    replacement_seq, init_prompt_len, input_idx,
                    new_input_attention_masks, current_used_budget, gen_calls,
                    rounds >>

finishing_max_new_tokens_NoSubtract == max_budget

\* line 126: max_new_tokens=max_budget-current_used_budget
finishing_max_new_tokens == max_budget - current_used_budget

\* lines 119-131: the Finishing call of model.generate, no stop predicate.
FinishingIssue ==
    LET masks == CatRows(attention_mask, OnesAfter(output_seqs, prompt_length))
    IN  /\ pc = "finishing"
        /\ pc' = "finishing_call"
        /\ new_input_attention_masks' = masks
        /\ gen_calls' = Append(gen_calls,
              GeneratorCall(output_seqs, masks, finishing_max_new_tokens,
                            FALSE))
        /\ UNCHANGED << llmVars, probe, minibatch >>
        /\ UNCHANGED << tokenizer, min_budget, max_budget, think_token_combo,
                        replacement_seq, init_prompt_len, prompt_length,
                        input_idx, attention_mask, output_seqs,
                        current_used_budget, rounds >>

\* lines 122-133: the Finishing round returns and so does the function.
FinishingReturn(new) ==
    /\ pc = "finishing_call"
    /\ output_seqs' = CatRows(LastCall.input_ids, new)
    /\ pc' = "returned"
    /\ UNCHANGED << llmVars, probe, minibatch >>
    /\ UNCHANGED << tokenizer, min_budget, max_budget, think_token_combo,
                    replacement_seq, init_prompt_len, prompt_length, input_idx,
                    attention_mask, new_input_attention_masks,
                    current_used_budget, gen_calls, rounds >>

\* The number of new tokens the batch holds: sequence length minus prompt.
NewTokens == Width(output_seqs) - init_prompt_len

(***************************************************************************)
(* llm.py: LLM.__init__, LLM.generate and LLM._run_engine.                 *)
(***************************************************************************)
\* Requests added to the engine over the generate calls of one LLM.
MaxRequests == 2

bfLocals ==
    << min_budget, max_budget, think_token_combo, replacement_seq,
       init_prompt_len, prompt_length, input_idx, attention_mask,
       new_input_attention_masks, output_seqs, current_used_budget,
       gen_calls, rounds >>

\* str(n) of a request counter value and int(request_id)
DecimalDigits == << "0", "1", "2", "3", "4", "5", "6", "7", "8", "9" >>

RECURSIVE py_str(_)
py_str(n) ==
    IF n < 10 THEN << DecimalDigits[n + 1] >>
    ELSE py_str(n \div 10) \o << DecimalDigits[(n % 10) + 1] >>

DigitValue(c) == CHOOSE d \in 0..9 : DecimalDigits[d + 1] = c

RECURSIVE py_int(_)
py_int(s) ==
    IF Len(s) = 0 THEN 0
    ELSE 10 * py_int(SubSeq(s, 1, Len(s) - 1)) + DigitValue(s[Len(s)])

\* lines 153-173: the fields __init__ derives from the tokenizer.
LLM_init(vocab) ==
    /\ pc = "idle"
    /\ pc' = "llm_ready"
    /\ tokenizer' = Tokenizer(vocab)
    /\ do_budget_forcing' = FALSE
    /\ llm_min_budget' = None
    /\ think_tokens' = LLM_init_think_tokens(vocab)
    /\ replacement_tokens' = LLM_init_replacement_tokens(vocab)
    /\ request_counter' = 0
    /\ UNCHANGED << engine, outputs, handed, result, bfLocals, probe, minibatch >>

\* The token streams the engine's model may produce for a request; a
\* request is finished when its stream ends (end-of-sequence, or the
\* max_tokens of its sampling parameters).
Streams(tok, patterns) ==
    LET a == Filler(tok.vocab)
        e == tok.eos_token_id
    IN  IF Len(patterns) = 0 THEN { <<a, e>>, <<a, a, a, e>> }
        ELSE { <<a, e>>, patterns[1], patterns[1] \o <<e>>,
               <<a>> \o patterns[Len(patterns)] }

\* _validate_and_add_requests (engine side): one request per prompt, its id
\* the next value of request_counter.
AddRequests(reqs, counter, streams, logprobs) ==
    reqs \o [i \in 1..Len(streams) |->
                [request_id |-> py_str(counter + i - 1),
                 stream |-> streams[i], n |-> 0, finished |-> FALSE,
                 logprobs |-> logprobs]]

budget_check_Skipped(forcing, min_b) == "run_engine"

\* lines 279-283: the ValueError, or the call of _run_engine.
budget_check(forcing, min_b) ==
    IF forcing /\ min_b = None THEN "value_error" ELSE "run_engine"

\* lines 242-283: generate up to its call of _run_engine.
LLM_generate(streams, logprobs, forcing, min_b) ==
    /\ pc \in {"llm_ready", "value_error"}
    /\ request_counter + Len(streams) <= MaxRequests
    /\ do_budget_forcing' = forcing
    /\ llm_min_budget' = min_b
    /\ engine' = AddRequests(engine, request_counter, streams, logprobs)
    /\ request_counter' = request_counter + Len(streams)
    /\ pc' = budget_check(forcing, min_b)
    /\ outputs' = << >>
    /\ UNCHANGED << tokenizer, think_tokens, replacement_tokens, handed,
                    result, bfLocals, probe, minibatch >>

\* llm_engine.has_unfinished_requests()
has_unfinished_requests(reqs) == \E i \in 1..Len(reqs) : ~reqs[i].finished

\* llm_engine.step(): the scheduled requests each get one more token; what
\* is reported is the request's tokens so far and whether it is finished.
StepRequest(r) ==
    [r EXCEPT !.n = r.n + 1, !.finished = (r.n + 1 = Len(r.stream))]

\* The log-probability the engine reports for the k-th sampled token.
Logprob(k) == 0 - k

StepOutput(r) ==
    [request_id |-> r.request_id,
     token_ids |-> SubSeq(r.stream, 1, r.n),
     logprobs |-> IF r.logprobs
                  THEN Some([k \in 1..r.n |->
                               [id |-> r.stream[k], logprob |-> Logprob(k)]])
                  ELSE None,
     finished |-> r.finished]

InList_Any(x, list) == TRUE

\* x in list
InList(x, list) == \E i \in 1..Len(list) : list[i] = x

\* line 331: the guard of the splice.
BelowBudget(token_ids) ==
    /\ do_budget_forcing
    /\ Len(token_ids) < Value(llm_min_budget)
    /\ Len(token_ids) >= 3

SpliceOutput_TailOnly(output) ==
    LET token_ids == output.token_ids
    IN  IF BelowBudget(token_ids) /\ InList(LastN(token_ids, 3), think_tokens)
        THEN [output EXCEPT !.token_ids =
                 LastN(token_ids, 3) \o replacement_tokens]
        ELSE output

\* lines 326-337: output.outputs[0].token_ids[-3:] = tuple(token_ids[-3:]
\* + self.replacement_tokens), when the guards hold.
SpliceOutput(output) ==
    LET token_ids == output.token_ids
    IN  IF BelowBudget(token_ids) /\ InList(LastN(token_ids, 3), think_tokens)
        THEN [output EXCEPT !.token_ids =
                 SubSeq(token_ids, 1, Len(token_ids) - 3)
                     \o (LastN(token_ids, 3) \o replacement_tokens)]
        ELSE output

\* lines 324-340: the for loop over the outputs of one step.
RECURSIVE CollectFinished(_, _)
CollectFinished(step_outputs, acc) ==
    IF Len(step_outputs) = 0 THEN acc
    ELSE LET output == SpliceOutput(Head(step_outputs))
         IN  CollectFinished(Tail(step_outputs),
                             IF output.finished THEN Append(acc, output)
                                                ELSE acc)

\* The orders in which a step may report the requests it scheduled.
Orders(S) ==
    { o \in [1..Cardinality(S) -> S] : \A i \in S : \E k \in DOMAIN o : o[k] = i }

\* lines 322-340: one iteration of the while loop of _run_engine.
RunEngineStep(order) ==
    LET stepped == [i \in 1..Len(engine) |->
                       IF \E k \in DOMAIN order : order[k] = i
                       THEN StepRequest(engine[i]) ELSE engine[i]]
        step_outputs == [k \in 1..Len(order) |-> StepOutput(stepped[order[k]])]
    IN  /\ pc = "run_engine"
        /\ has_unfinished_requests(engine)
        /\ engine' = stepped
        /\ outputs' = CollectFinished(step_outputs, outputs)
        /\ UNCHANGED << pc, tokenizer, do_budget_forcing, llm_min_budget,
                        think_tokens, replacement_tokens, request_counter,
                        handed, result, bfLocals, probe, minibatch >>

sorted_Unsorted(list) == list

\* line 361: sorted(outputs, key=lambda x: int(x.request_id)), a stable sort.
RECURSIVE sorted_by_request_id(_)
sorted_by_request_id(list) ==
    IF Len(list) = 0 THEN << >>
    ELSE LET front == sorted_by_request_id(SubSeq(list, 1, Len(list) - 1))
             x == list[Len(list)]
             keep == SelectSeq(front,
                        LAMBDA y : py_int(y.request_id) <= py_int(x.request_id))
             rest == SelectSeq(front,
                        LAMBDA y : py_int(y.request_id) > py_int(x.request_id))
         IN  keep \o << x >> \o rest

\* torch.nn.utils.rnn.pad_sequence(rows, batch_first=True, padding_value)
\* of a list that is not empty.
pad_sequence(rows, padding_value) ==
    LET longest == CHOOSE n \in {Len(rows[i]) : i \in 1..Len(rows)} :
                       \A i \in 1..Len(rows) : Len(rows[i]) <= n
    IN  [i \in 1..Len(rows) |->
            rows[i] \o Repeat(padding_value, longest - Len(rows[i]))]

\* lines 379-385: the log-probabilities of one completion, token by token
\* (zip stops at the shorter of the two lists).
LogprobRow(output) ==
    LET dicts == Value(output.logprobs)
        n == IF Len(dicts) < Len(output.token_ids)
             THEN Len(dicts) ELSE Len(output.token_ids)
    IN  [k \in 1..n |-> dicts[k].logprob]

llm_pad_token_id_AlwaysEos(tok) == tok.eos_token_id

\* lines 387-388
llm_pad_token_id(tok) ==
    IF tok.pad_token_id # None THEN Value(tok.pad_token_id)
    ELSE tok.eos_token_id

\* lines 374-394: _post_process_outputs
post_process_outputs(request_outputs, tok) ==
    LET output_token_ids ==
            [i \in 1..Len(request_outputs) |-> request_outputs[i].token_ids]
        with_logprobs ==
            SelectSeq(request_outputs, LAMBDA o : o.logprobs # None)
        logprobs == [i \in 1..Len(with_logprobs) |->
                        LogprobRow(with_logprobs[i])]
    IN  [output_token_ids |->
             pad_sequence(output_token_ids, llm_pad_token_id(tok)),
         logprobs |->
             IF Len(logprobs) > 0
             THEN pad_sequence(logprobs, llm_pad_token_id(tok))
             ELSE << >>]

\* lines 322, 356-362: the loop ends, the outputs are sorted and handed to
\* _post_process_outputs, whose result is returned.
RunEngineReturn ==
    /\ pc = "run_engine"
    /\ ~has_unfinished_requests(engine)
    /\ handed' = sorted_by_request_id(outputs)
    /\ result' = post_process_outputs(handed', tokenizer)
    /\ pc' = "generate_returned"
    /\ UNCHANGED << tokenizer, do_budget_forcing, llm_min_budget, think_tokens,
                    replacement_tokens, request_counter, engine, outputs,
                    bfLocals, probe, minibatch >>

(***************************************************************************)
(* hf_rollout.py: HFRollout._generate_minibatch.                           *)
(***************************************************************************)
\* lines 201-213 and 230: on the branch (not validate) and
\* config.do_budget_forcing the result of budget_forcing_gen is not bound to
\* a name; `seq = output_seqs` then reads a local that was never assigned.
generate_minibatch_after_forcing ==
    /\ pc = "returned"
    /\ pc' = "unbound_local_error"
    /\ UNCHANGED << bfVars, llmVars, probe, minibatch >>

\* prompts.meta_info.get('response_length', self.config.response_length)
meta_info_get(meta_value, config_value) ==
    IF meta_value # None THEN Value(meta_value) ELSE config_value

\* lines 164-228: the other branch, up to its call of module.generate.
generate_minibatch(prompts, validate, do_bf, config_len, meta_len) ==
    LET response_length == meta_info_get(meta_len, config_len)
    IN  /\ pc = "idle"
        /\ ~((~validate) /\ do_bf)
        /\ pc' = "minibatch_call"
        /\ minibatch' =
              [validate |-> validate,
               do_budget_forcing |-> do_bf,
               config_response_length |-> config_len,
               response_length |-> response_length,
               idx |-> prompts.input_ids,
               attention_mask |-> prompts.attention_mask,
               prompt_length |-> Width(prompts.input_ids),
               pad_token_id |-> Value(tokenizer.pad_token_id),
               call |-> GeneratorCall(prompts.input_ids,
                                      prompts.attention_mask,
                                      response_length, FALSE),
               seq |-> << >>]
        /\ UNCHANGED << bfVars, llmVars, probe >>

\* lines 240-246: the padding to prompt_length + config.response_length.
pad_to_sequence_length(seq, sequence_length, pad_token_id) ==
    LET delta_length == sequence_length - Width(seq)
    IN  IF delta_length > 0
        THEN [b \in 1..Len(seq) |->
                 seq[b] \o Repeat(pad_token_id, delta_length)]
        ELSE seq

\* lines 230-277: module.generate returns; padding, the assertion of line
\* 248, and the prompt and response parts of the result.
generate_minibatch_return(new) ==
    LET output_seqs_ == CatRows(minibatch.call.input_ids, new)
        sequence_length ==
            minibatch.prompt_length + minibatch.config_response_length
        seq == pad_to_sequence_length(output_seqs_, sequence_length,
                                      minibatch.pad_token_id)
    IN  /\ pc = "minibatch_call"
        /\ pc' = IF Width(seq) = sequence_length
                 THEN "minibatch_returned" ELSE "assertion_error"
        /\ minibatch' = [minibatch EXCEPT !.seq = seq]
        /\ UNCHANGED << bfVars, llmVars, probe >>


\* Widths of the tensors probed.
MaxProbeWidth == 4

\* Rows of a given width over the tokens that decide a match.
RECURSIVE RowsOver(_, _)
RowsOver(alphabet, w) ==
    IF w = 0 THEN { << >> }
    ELSE { r \o << t >> : r \in RowsOver(alphabet, w - 1), t \in alphabet }

\* Tensors of one row, or of that row and a second row that is filler with
\* or without a final end-of-sequence token.
ProbeTensors(tok, combo) ==
    LET a == Filler(tok.vocab)
        alphabet == { combo[1][1], think_token_id, combo[1][3],
                      tok.eos_token_id }
    IN  UNION { { << r >> : r \in RowsOver(alphabet, w) }
                \cup
                { << r, Repeat(a, w - 1) \o << t >> >> :
                    r \in RowsOver(alphabet, w),
                    t \in {a, tok.eos_token_id} } :
                w \in 1..MaxProbeWidth }

\* get_matching_seq_mask, get_matching_eos_mask and the two stop predicates
\* applied to one tensor.
ProbeMatchers(input_ids) ==
    LET tok == Tokenizer(QwenVocab)
        combo == MatchingTokensStoppingCriteria_init(QwenVocab).think_token_combo
    IN  /\ pc = "idle"
        /\ pc' = "probed"
        /\ probe' =
              [input_ids |-> input_ids,
               combo |-> combo,
               eos |-> tok.eos_token_id,
               seq_mask |-> get_matching_seq_mask(input_ids, combo),
               eos_mask |-> get_matching_eos_mask(input_ids, tok.eos_token_id),
               matching_call |->
                   MatchingTokensStoppingCriteria_call(input_ids, combo,
                                                       tok.eos_token_id),
               any_eos_call |->
                   AnyEosStoppingCriteria_call(input_ids, tok.eos_token_id)]
        /\ UNCHANGED << tokenizer, bfLocals, llmVars, minibatch >>

(***************************************************************************)
(* Specification.                                                          *)
(***************************************************************************)
Init ==
    /\ pc = "idle"
    /\ tokenizer = Tokenizer(QwenVocab)
    /\ min_budget = 0
    /\ max_budget = 0
    /\ think_token_combo = << >>
    /\ replacement_seq = << >>
    /\ init_prompt_len = 0
    /\ prompt_length = 0
    /\ input_idx = << >>
    /\ attention_mask = << >>
    /\ new_input_attention_masks = << >>
    /\ output_seqs = << >>
    /\ current_used_budget = 0
    /\ gen_calls = << >>
    /\ rounds = 0
    /\ do_budget_forcing = FALSE
    /\ llm_min_budget = None
    /\ think_tokens = << >>
    /\ replacement_tokens = << >>
    /\ request_counter = 0
    /\ engine = << >>
    /\ outputs = << >>
    /\ handed = << >>
    /\ result = << >>
    /\ probe = << >>
    /\ minibatch = << >>

EnterBatch ==
    \E vocab \in Vocabs \cup {EosClosesVocab}, cfg \in BudgetConfigs :
        \E prompts \in PromptBatches(Tokenizer(vocab)) :
            budget_forcing_gen(vocab, cfg, prompts)

PrimingRound ==
    /\ pc = "priming_call"
    /\ \E new \in StoppedRounds(LastCall, think_token_combo, tokenizer) :
          PrimingReturn(new)

ForcingRound ==
    /\ pc = "forcing_call"
    /\ \E new \in StoppedRounds(LastCall, think_token_combo, tokenizer) :
          ForcingReturn(new)

FinishingRound ==
    /\ pc = "finishing_call"
    /\ \E new \in FreeRounds(LastCall, tokenizer) : FinishingReturn(new)

BuildLLM == \E vocab \in Vocabs \cup {NoPadVocab} : LLM_init(vocab)

\* The budgets a caller passes to generate.
MinBudgets == {None, Some(4), Some(5)}

Generate ==
    /\ pc \in {"llm_ready", "value_error"}
    /\ \E n \in 1..(MaxRequests - request_counter) :
          \E streams \in [1..n -> Streams(tokenizer, think_tokens)],
             logprobs \in BOOLEAN, forcing \in BOOLEAN,
             min_b \in MinBudgets :
              LLM_generate(streams, logprobs, forcing, min_b)

\* The requests a step schedules: the engine admits requests in arrival
\* order (and preempts the latest first), so a step runs the unfinished
\* requests among the first j, the later ones waiting.
Scheduled(reqs) ==
    { S \in { { i \in 1..j : ~reqs[i].finished } : j \in 1..Len(reqs) } :
        S # {} }

EngineStep ==
    /\ pc = "run_engine"
    /\ \E S \in Scheduled(engine) :
          \E order \in Orders(S) : RunEngineStep(order)

\* config.response_length and the response_length of meta_info.
ResponseLengths == {2}
MetaResponseLengths == {None, Some(1), Some(3)}

MinibatchCall ==
    /\ pc = "idle"
    /\ \E prompts \in PromptBatches(tokenizer),
          validate \in BOOLEAN, do_bf \in BOOLEAN,
          config_len \in ResponseLengths, meta_len \in MetaResponseLengths :
          generate_minibatch(prompts, validate, do_bf, config_len, meta_len)

MinibatchReturn ==
    /\ pc = "minibatch_call"
    /\ \E new \in FreeRounds(minibatch.call, tokenizer) :
          generate_minibatch_return(new)

Probe ==
    /\ pc = "idle"
    /\ \E input_ids \in ProbeTensors(
              Tokenizer(QwenVocab),
              MatchingTokensStoppingCriteria_init(QwenVocab).think_token_combo) :
          ProbeMatchers(input_ids)

Next ==
    \/ EnterBatch
    \/ PrimingRound
    \/ ForcingIssue
    \/ ForcingRound
    \/ FinishingIssue
    \/ FinishingRound
    \/ BuildLLM
    \/ Generate
    \/ EngineStep
    \/ RunEngineReturn
    \/ generate_minibatch_after_forcing
    \/ MinibatchCall
    \/ MinibatchReturn
    \/ Probe

Spec == Init /\ [][Next]_vars

\* A generator that may also return without a single new token.
ForcingStall ==
    /\ pc = "forcing_call"
    /\ ForcingReturn([b \in 1..Len(LastCall.input_ids) |-> << >>])

SpecStall == Init /\ [][Next \/ ForcingStall]_vars

(***************************************************************************)
(* Claims.                                                                 *)
(***************************************************************************)
BatchRunning ==
    {"priming_call", "forcing", "forcing_call", "finishing", "finishing_call",
     "returned", "match_error"}

HasOutput ==
    pc \in {"forcing", "forcing_call", "finishing", "finishing_call",
            "returned", "match_error"}

\* C1: when budget_forcing_gen returns, every sequence holds at least
\* min_budget and at most max_budget new tokens (final length minus prompt
\* length), the generator emitting 1..max_new_tokens tokens per round.
C1_ReturnedWithinBudget ==
    pc = "returned" =>
        /\ min_budget <= NewTokens
        /\ NewTokens <= max_budget
        /\ \A b \in 1..Len(output_seqs) :
              Len(output_seqs[b]) - init_prompt_len = NewTokens

\* Witness of C1: a return with the whole budget used.
C1_Witness == pc = "returned" /\ NewTokens = max_budget

\* C2: after Priming, after each Forcing iteration and after Finishing the
\* number of new tokens never exceeds max_budget.
C2_NeverExceedsMax == HasOutput => NewTokens <= max_budget

\* C3: with a generator that emits at least one token per round the
\* controller leaves the Forcing loop and goes on to the Finishing round:
\* a Forcing round after which min_budget new tokens exist is the last one.
C3_LeavesForcingLoop ==
    [][(pc = "forcing_call" /\ NewTokens' >= min_budget)
          => pc' = "finishing"]_vars

\* C4: max_budget - min_budget <= 128 is rejected as a configuration error
\* before model.generate is called once, and a margin above 128 is not
\* rejected.
C4_ConfigurationError ==
    /\ pc = "config_error" => gen_calls = << >>
    /\ pc \in BatchRunning \cup {"config_error", "build_error"} =>
          (pc = "config_error" <=> max_budget - min_budget <= 128)

\* Witness of C4: the call was rejected.
C4_Witness == pc = "config_error" /\ max_budget - min_budget = 128

\* C7: a Forcing round that returns no new token makes the controller fail
\* with a progress-stalled error instead of iterating again.
C7_StallIsFatal ==
    [][(pc = "forcing_call" /\ Width(output_seqs') = Width(LastCall.input_ids))
          => pc' = "progress_stalled"]_vars

\* C9: when a round ends with an end-of-sequence token as the last token of
\* a sequence and the budget is below min_budget, the next call of the
\* generator gets that token overwritten with the newline token, and gets
\* every sequence of the batch.
C9_EosSplicedBeforeNextCall ==
    [][(pc = "forcing" /\ pc' = "forcing_call") =>
          /\ Len(LastCall'.input_ids) = Len(output_seqs)
          /\ \A b \in 1..Len(output_seqs) :
                output_seqs[b][Width(output_seqs)] = tokenizer.eos_token_id
                  => LastCall'.input_ids[b][Width(output_seqs)]
                        = HFRollout_replacement_tokens(tokenizer.vocab).nl]_vars

LLMRunning == {"llm_ready", "value_error", "run_engine", "generate_returned"}

\* C5: with do_budget_forcing and min_budget set, every request appended to
\* the outputs of _run_engine holds at least min_budget generated tokens.
C5_AppendedMeetBudget ==
    (pc \in {"run_engine", "generate_returned"} /\ do_budget_forcing
        /\ llm_min_budget # None) =>
        \A i \in 1..Len(outputs) :
            Len(outputs[i].token_ids) >= Value(llm_min_budget)

\* C6: whatever the order in which the engine reports requests finished,
\* _run_engine hands the outputs on in ascending request id, each finished
\* request exactly once.
C6_HandedSortedOnce ==
    pc = "generate_returned" =>
        /\ \A i, j \in 1..Len(handed) :
              i < j => py_int(handed[i].request_id) < py_int(handed[j].request_id)
        /\ \A r \in 1..Len(engine) :
              Cardinality({k \in 1..Len(handed) :
                  handed[k].request_id = engine[r].request_id}) = 1
        /\ Len(handed) = Len(engine)

\* Witness of C6: the engine finished the requests out of submission order.
C6_Witness ==
    /\ pc = "generate_returned"
    /\ \E i, j \in 1..Len(outputs) :
          i < j /\ py_int(outputs[i].request_id) > py_int(outputs[j].request_id)

Degenerate(vocab) ==
    \/ Len(left_matching_token_ids(vocab)) = 0
    \/ Len(right_matching_token_ids(vocab)) = 0

\* C8: with a vocabulary that has no token ending with "</" or none starting
\* with ">", neither builder fails, no tail matches, and the rollout
\* proceeds.
C8_DegenerateVocabularyProceeds ==
    (pc # "idle" /\ pc # "probed" /\ Degenerate(tokenizer.vocab)) =>
        /\ pc # "build_error"
        /\ pc \in LLMRunning => think_tokens = << >>
        /\ pc \in BatchRunning => think_token_combo = << >>

IsPattern(triple, combo) == \E m \in 1..Len(combo) : combo[m] = triple

\* C10: the terminator match of a row is true exactly when the row has at
\* least 3 tokens and its last 3 tokens are a pattern of the set (false for
\* shorter rows), and the stop predicate reports a match for a batch of rows
\* of exactly 3 tokens that are patterns.
C10_MatchIsLastThree ==
    pc = "probed" =>
        LET t == probe.input_ids
        IN  /\ ~probe.seq_mask.raised
            /\ \A b \in 1..Len(t) :
                  probe.seq_mask.mask[b]
                    <=> (Width(t) >= 3 /\ IsPattern(LastN(t[b], 3), probe.combo))
            /\ (Width(t) = 3 /\ \A b \in 1..Len(t) : IsPattern(t[b], probe.combo))
                  => \A b \in 1..Len(t) : probe.matching_call[b]

\* C11: get_matching_eos_mask selects exactly the rows whose last token is
\* the end-of-sequence token.
C11_EosMaskIsLastTokenEos ==
    pc = "probed" =>
        \A b \in 1..Len(probe.input_ids) :
            probe.eos_mask[b]
              <=> (probe.input_ids[b][Width(probe.input_ids)] = probe.eos)

\* The token stream the engine produced for the request of an output.
StreamOf(output) ==
    LET r == CHOOSE r \in 1..Len(engine) :
                 engine[r].request_id = output.request_id
    IN  engine[r].stream

EndsWithTerminatorBelowBudget(stream) ==
    /\ Len(stream) >= 3
    /\ Len(stream) < Value(llm_min_budget)
    /\ InList(LastN(stream, 3), think_tokens)

\* C12: in per-request mode the splice of a request that ends with a
\* terminator triple below min_budget replaces the triple: the 3 tokens are
\* gone from their position and the sequence ends with the replacement run
\* (newline, Wait, comma) in their place.
C12_SpliceReplacesTriple ==
    (pc \in {"run_engine", "generate_returned"} /\ do_budget_forcing
        /\ llm_min_budget # None) =>
        \A i \in 1..Len(outputs) :
            EndsWithTerminatorBelowBudget(StreamOf(outputs[i])) =>
                outputs[i].token_ids =
                    SubSeq(StreamOf(outputs[i]), 1,
                           Len(StreamOf(outputs[i])) - 3)
                        \o replacement_tokens

\* The calls of model.generate made without a stop predicate.
FinishingCalls == {i \in 1..Len(gen_calls) : ~gen_calls[i].stopping_criteria}

\* C13: a run of budget_forcing_gen that completes made exactly one
\* Finishing call of the generator, as its last call, without stop
\* predicate, and with max_new_tokens = max_budget minus the new tokens the
\* sequences held when it was issued.
C13_OneFinishingCall ==
    pc = "returned" =>
        /\ FinishingCalls = {Len(gen_calls)}
        /\ LastCall.max_new_tokens =
              max_budget - (Width(LastCall.input_ids) - init_prompt_len)

\* Witness of C13: a run completed by a Finishing round that stopped early.
C13_Witness ==
    /\ pc = "returned"
    /\ ~LastCall.stopping_criteria
    /\ Width(output_seqs) - Width(LastCall.input_ids) < LastCall.max_new_tokens

\* Some row of the tensor ends with a terminator pattern / with eos.
SomeRowMatches(t, combo) ==
    \E b \in 1..Len(t) : Width(t) >= 3 /\ IsPattern(LastN(t[b], 3), combo)

SomeRowEndsWithEos(t, eos) == \E b \in 1..Len(t) : t[b][Width(t)] = eos

\* C14: the combined decision of the two stop predicates (element-wise OR)
\* is the same for every sequence of the batch, and for sequences longer
\* than 3 tokens it is "stop" exactly when some sequence's last 3 tokens are
\* a terminator pattern or some sequence's last token is end-of-sequence.
C14_OneStopDecision ==
    pc = "probed" =>
        LET t == probe.input_ids
            d == StopDecision(t, probe.combo, probe.eos)
        IN  /\ \A b, c \in 1..Len(t) : d[b] = d[c]
            /\ Width(t) > 3 =>
                  \A b \in 1..Len(t) :
                      d[b] <=> (SomeRowMatches(t, probe.combo)
                                  \/ SomeRowEndsWithEos(t, probe.eos))

\* Witness of C14: two sequences longer than 3 tokens, one ends with a
\* terminator pattern and the other with the end-of-sequence token.
C14_Witness ==
    /\ pc = "probed"
    /\ Len(probe.input_ids) = 2
    /\ Width(probe.input_ids) > 3
    /\ IsPattern(LastN(probe.input_ids[1], 3), probe.combo)
    /\ probe.input_ids[2][Width(probe.input_ids)] = probe.eos
    /\ probe.matching_call = << TRUE, FALSE >>

\* The splices of a Forcing iteration of budget_forcing_gen applied to one
\* sequence on its own (a batch of one row).
BatchSpliceOf(stream) ==
    LET t == << stream >>
        combo == MatchingTokensStoppingCriteria_init(tokenizer.vocab)
                     .think_token_combo
        rt == HFRollout_replacement_tokens(tokenizer.vocab)
    IN  Splice(t, get_matching_seq_mask(t, combo).mask,
               get_matching_eos_mask(t, tokenizer.eos_token_id),
               TensorLong(<< rt.nl, rt.Wait, rt.comma >>), rt.nl)[1]

\* C15: the per-request controller and the batch-synchronous controller are
\* the same state machine on a single request: for the same generated
\* tokens, ending with a terminator triple below min_budget, the
\* per-request splice leaves the sequence the batch splice leaves.
C15_SameSpliceAsBatch ==
    (pc \in {"run_engine", "generate_returned"} /\ do_budget_forcing
        /\ llm_min_budget # None) =>
        \A i \in 1..Len(outputs) :
            EndsWithTerminatorBelowBudget(StreamOf(outputs[i])) =>
                outputs[i].token_ids = BatchSpliceOf(StreamOf(outputs[i]))

Range(seq) == {seq[i] : i \in 1..Len(seq)}

\* The candidate ids as sets, whatever the iteration order.
PrefixCandidates(vocab) ==
    {e.id : e \in {x \in Range(vocab) : EndsWith(x.token, Str_open)}}

SuffixCandidates(vocab) ==
    {e.id : e \in {x \in Range(vocab) : StartsWith(x.token, Str_close)}}

CrossProduct(vocab) ==
    {<< l, think_token_id, r >> :
        l \in PrefixCandidates(vocab), r \in SuffixCandidates(vocab)}

\* Other iteration orders of the same vocabulary.
Reverse(seq) == [i \in 1..Len(seq) |-> seq[Len(seq) + 1 - i]]

Rotate(seq, k) == SubSeq(seq, k + 1, Len(seq)) \o SubSeq(seq, 1, k)

Reorderings(vocab) ==
    {Reverse(vocab)} \cup {Rotate(vocab, k) : k \in 1..(Len(vocab) - 1)}
        \cup {Reverse(Rotate(vocab, k)) : k \in 1..(Len(vocab) - 1)}

\* C16: the pattern set either builder has just built is the cross product
\* prefixCandidates x {think} x suffixCandidates, and it is the same set
\* when the vocabulary is iterated in another order.
C16_PatternsAreCrossProduct ==
    /\ pc = "priming_call" =>
          /\ Range(think_token_combo) = CrossProduct(tokenizer.vocab)
          /\ \A v \in Reorderings(tokenizer.vocab) :
                Range(ThinkTokenRows(v)) = Range(think_token_combo)
    /\ pc = "llm_ready" =>
          /\ Range(think_tokens) = CrossProduct(tokenizer.vocab)
          /\ \A v \in Reorderings(tokenizer.vocab) :
                Range(LLM_init_think_tokens(v)) = Range(think_tokens)

\* Witness of C16: a pattern set of two patterns was built, and another
\* iteration order lists the same patterns in another order.
C16_Witness ==
    /\ pc = "priming_call"
    /\ Cardinality(Range(think_token_combo)) = 2
    /\ \E v \in Reorderings(tokenizer.vocab) :
          ThinkTokenRows(v) # think_token_combo

\* A buffer whose rows are the given sequences in order, each followed by
\* the pad value up to the length of the longest of them.
IsRightPadded(buf, seqs, pad) ==
    /\ Len(buf) = Len(seqs)
    /\ \A i \in 1..Len(buf) :
          /\ \A j \in 1..Len(seqs) : Len(buf[i]) >= Len(seqs[j])
          /\ \E j \in 1..Len(seqs) : Len(buf[i]) = Len(seqs[j])
          /\ SubSeq(buf[i], 1, Len(seqs[i])) = seqs[i]
          /\ \A k \in (Len(seqs[i]) + 1)..Len(buf[i]) : buf[i][k] = pad

\* C17: _post_process_outputs returns the completions in input order, each
\* right-padded to the longest one with the pad token id (the
\* end-of-sequence id when the tokenizer has no pad id); the per-token
\* log-probabilities are padded the same way, and only when requested.
C17_PaddedBuffer ==
    pc = "generate_returned" =>
        LET pad == IF tokenizer.pad_token_id = None
                   THEN tokenizer.eos_token_id
                   ELSE Value(tokenizer.pad_token_id)
            requested == SelectSeq(handed, LAMBDA o : o.logprobs # None)
        IN  /\ IsRightPadded(result.output_token_ids,
                             [i \in 1..Len(handed) |-> handed[i].token_ids],
                             pad)
            /\ IsRightPadded(result.logprobs,
                             [i \in 1..Len(requested) |->
                                 [k \in 1..Len(Value(requested[i].logprobs)) |->
                                     Value(requested[i].logprobs)[k].logprob]],
                             pad)

\* Witness of C17: completions of different lengths were padded with the
\* end-of-sequence id, the tokenizer having no pad id, and so were their
\* log-probabilities.
C17_Witness ==
    /\ pc = "generate_returned"
    /\ tokenizer.pad_token_id = None
    /\ \E i \in 1..Len(handed) :
          Len(handed[i].token_ids) < Width(result.output_token_ids)
    /\ \E i \in 1..Len(result.logprobs) :
          result.logprobs[i][Width(result.logprobs)] = tokenizer.eos_token_id

\* C18: at the start of every Forcing iteration and of the Finishing round
\* current_used_budget is the sequence length minus the initial prompt
\* length: all tokens generated and spliced so far, no prompt token.
C18_CounterIsNewTokens ==
    pc \in {"forcing", "finishing"} => current_used_budget = NewTokens

\* C19: no splice modifies a prompt token: the first init_prompt_len tokens
\* of every sequence stay those of the prompt the function was called with.
C19_PromptUntouched ==
    HasOutput =>
        \A b \in 1..Len(output_seqs) :
            SubSeq(output_seqs[b], 1, init_prompt_len)
                = gen_calls[1].input_ids[b]

C21_MatchingCallUniform ==
    pc = "probed" =>
        \A b, c \in 1..Len(probe.matching_call) :
            probe.matching_call[b] = probe.matching_call[c]

\* C22: the Priming round asks for at most max_budget - 128 new tokens, at
\* the start of the Finishing round at most max_budget - 128 new tokens
\* exist, and the Finishing round is issued with max_new_tokens >= 128.
C22_ReservedHeadroom ==
    /\ pc \in BatchRunning => gen_calls[1].max_new_tokens <= max_budget - 128
    /\ pc = "finishing" => NewTokens <= max_budget - 128
    /\ pc \in {"finishing_call", "returned"} => LastCall.max_new_tokens >= 128

\* Witness of C22: the Priming round used all it could, and the Finishing
\* round was issued with exactly the reserved 128 tokens.
C22_Witness ==
    /\ pc = "finishing_call"
    /\ Width(LastCall.input_ids) - init_prompt_len = max_budget - 128
    /\ LastCall.max_new_tokens = 128

\* x[:-3] of a sequence.
BeforeTail(seq) == SubSeq(seq, 1, Len(seq) - 3)

\* The appended outputs of _run_engine are not shorter than what the engine
\* generated, and hold the same tokens before the last 3 generated ones.
PerRequestSpliceKeeps ==
    \A i \in 1..Len(outputs) :
        LET generated == StreamOf(outputs[i])
            token_ids == outputs[i].token_ids
        IN  /\ Len(token_ids) >= Len(generated)
            /\ SubSeq(token_ids, 1, Len(BeforeTail(generated)))
                  = BeforeTail(generated)

\* C23: a splice never shortens a sequence: the splices of a Forcing
\* iteration leave the length of every sequence unchanged, the per-request
\* splice leaves the length unchanged or increases it, and the tokens
\* before the spliced tail stay as they were.
C23_SpliceNeverShortens ==
    [][/\ (pc = "forcing" /\ pc' = "forcing_call") =>
              \A b \in 1..Len(output_seqs) :
                  /\ Len(output_seqs'[b]) = Len(output_seqs[b])
                  /\ BeforeTail(output_seqs'[b]) = BeforeTail(output_seqs[b])
       /\ PerRequestSpliceKeeps']_vars

\* Witness of C23: a request of 4 generated tokens was spliced and appended.
C23_Witness ==
    /\ pc = "run_engine"
    /\ \E i \in 1..Len(outputs) :
          /\ Len(StreamOf(outputs[i])) = 4
          /\ Len(outputs[i].token_ids) > 4

\* A transition that is a call of LLM.generate: it takes request ids.
GenerateCalled == request_counter' # request_counter

\* No request of the engine has been stepped.
NoEngineStepRun == \A r \in 1..Len(engine) : engine[r].n = 0

\* C24: generate called with do_budget_forcing=True and min_budget=None
\* raises the ValueError, and llm_engine.step is not called for that call.
C24_ValueErrorBeforeAnyStep ==
    [][/\ (GenerateCalled /\ do_budget_forcing' /\ llm_min_budget' = None)
            => (pc' = "value_error" /\ NoEngineStepRun')
       /\ pc = "value_error" => (GenerateCalled \/ UNCHANGED engine)]_vars

\* Witness of C24: the call has raised, its requests were not stepped.
C24_Witness ==
    /\ pc = "value_error"
    /\ do_budget_forcing
    /\ llm_min_budget = None
    /\ Len(engine) > 0
    /\ NoEngineStepRun

\* The conditions under which a step output is due a terminator splice.
TerminatorSpliceDue(token_ids) ==
    /\ do_budget_forcing
    /\ 3 <= Len(token_ids)
    /\ Len(token_ids) < Value(llm_min_budget)
    /\ IsPattern(LastN(token_ids, 3), think_tokens)

\* C25: in per-request mode the tokens of a step output are modified
\* exactly when forcing is on, 3 <= generated tokens < min_budget and the
\* last 3 tokens are a terminator pattern; otherwise they are left as the
\* engine reported them.
C25_ModifiedExactlyWhenDue ==
    pc \in {"run_engine", "generate_returned"} =>
        /\ \A i \in 1..Len(outputs) :
              (outputs[i].token_ids # StreamOf(outputs[i]))
                <=> TerminatorSpliceDue(StreamOf(outputs[i]))
        /\ \A r \in 1..Len(engine) :
              engine[r].n >= 1 =>
                  LET output == StepOutput(engine[r])
                  IN  (SpliceOutput(output).token_ids # output.token_ids)
                        <=> TerminatorSpliceDue(output.token_ids)

\* Witness of C25: with forcing on, one request that ended with a
\* terminator pattern below min_budget was modified, and one that ended
\* with a pattern at min_budget was not.
C25_Witness ==
    /\ pc = "generate_returned"
    /\ do_budget_forcing
    /\ \E i, j \in 1..Len(outputs) :
          /\ outputs[i].token_ids # StreamOf(outputs[i])
          /\ outputs[j].token_ids = StreamOf(outputs[j])
          /\ Len(StreamOf(outputs[j])) = Value(llm_min_budget)
          /\ IsPattern(LastN(StreamOf(outputs[j]), 3), think_tokens)

\* C26: with budget forcing enabled and no validation call,
\* _generate_minibatch completes without error and the sequences it returns
\* are those budget_forcing_gen produced.
C26_MinibatchReturnsForcedSequences ==
    [][pc = "returned" =>
          /\ pc' = "minibatch_returned"
          /\ \A b \in 1..Len(output_seqs) :
                SubSeq(minibatch'.seq[b], 1, Width(output_seqs))
                    = output_seqs[b]]_vars

\* C28: the assertion seq.shape[1] == prompt_length + config.response_length
\* of _generate_minibatch holds on every call: the generated sequence is
\* never longer than that, and a shorter one is right-padded with
\* pad_token_id to exactly that length.
C28_SequenceLengthAssertion ==
    /\ pc # "assertion_error"
    /\ pc = "minibatch_returned" =>
          \A b \in 1..Len(minibatch.seq) :
              Len(minibatch.seq[b])
                  = minibatch.prompt_length + minibatch.config_response_length

\* C27: at every call of model.generate made by budget_forcing_gen the
\* attention mask has the length of the token context, and every position
\* of the mask after the prompt is 1.
C27_MaskMatchesContext ==
    pc \in {"priming_call", "forcing_call", "finishing_call"} =>
        /\ Len(LastCall.attention_mask) = Len(LastCall.input_ids)
        /\ \A b \in 1..Len(LastCall.input_ids) :
              /\ Len(LastCall.attention_mask[b]) = Len(LastCall.input_ids[b])
              /\ \A k \in (init_prompt_len + 1)..Len(LastCall.attention_mask[b]) :
                    LastCall.attention_mask[b][k] = 1

\* Witness of C27: the call of a second Forcing iteration, for a
\* left-padded prompt.
C27_Witness ==
    /\ pc = "forcing_call"
    /\ rounds = 2
    /\ LastCall.attention_mask[1][1] = 0
    /\ Width(LastCall.attention_mask) > init_prompt_len + 2

\* C29: a generate call that fails with the ValueError leaves the engine as
\* it was: none of its requests stays enqueued for a following call.
C29_FailedCallLeavesEngineUnchanged ==
    [][(GenerateCalled /\ pc' = "value_error") => engine' = engine]_vars
====
